---- MODULE Spec2Model ----
(***************************************************************************)
(* Wayback Machine MCP server: the sliding-window RateLimiter              *)
(* (utils/rate-limit.ts), fetchWithTimeout (utils/http.ts) and the domain  *)
(* operations that compose them (tools/save.ts, retrieve.ts, search.ts,    *)
(* status.ts).                                                             *)
(*                                                                         *)
(* Time is the value Date.now() returns, in milliseconds.  The clock       *)
(* advances in steps of TickMs.  JavaScript runs one synchronous section   *)
(* at a time: `running` names the caller that holds the thread between two *)
(* suspension points; the clock may advance while it does.                 *)
(***************************************************************************)
EXTENDS Integers, Sequences, FiniteSets, TLC

\* ---------------------------------------------------------------- bounds
TickMs == 50
MaxTicks == 8
MaxN == 2
MaxRecords == 3
MaxRqTicks == 6
MaxRqCalls == 3

\* ------------------------------------------------------ program constants
Slack == 100
\* 60 * 1000 of checkRateLimit()
Minute == 60000

MaxTime == MaxTicks * TickMs
WindowChoices == {0, 2 * TickMs}
MaxWindow == 2 * TickMs
\* A call started after LastCall could sleep past the end of the modelled clock.
LastCall == MaxTime - (MaxWindow + Slack + TickMs)

Callers == {"c1", "c2"}
NoOne == "none"
Rest == {"idle", "recorded", "aborted", "canTrue", "canFalse", "done"}

VARIABLES
    now,         \* Date.now()
    maxRequests, \* RateLimiter.maxRequests
    windowMs,    \* RateLimiter.windowMs
    requests,    \* RateLimiter.requests
    pc,          \* position of each caller
    wakeAt,      \* due time of the caller's pending setTimeout
    running,     \* the caller inside a synchronous section, or NoOne
    recent,      \* history: every admission recorded so far, oldest first
    raced,       \* history: a check passed while another caller had passed and not recorded
    waits,       \* history of each waitForSlot() call: suspensions, later arrivals
    opKind,      \* the domain operation the caller is in
    opResult,    \* the `success` field of the result the operation returned
    issued,      \* history: every fetchWithTimeout call of the domain operations
    opInput,     \* the URL the operation was called with
    opReturn,    \* the result object the operation returned, if it has
    opThrown,    \* the value the operation rejected with, if any
    opCaught,    \* the value the operation's catch block caught, if any
    opReqs,      \* history: the methods of the requests this call issued
    opFirst,     \* history: how the first request of this call ended
    opWaited,    \* history: this call reached waitForSlot()
    opBefore,    \* history: RateLimiter.requests when the operation was called
    fpc,         \* position of the fetchWithTimeout call
    ftimeout,    \* its `timeout`
    fstart,      \* Date.now() when it was issued
    ftimer,      \* its setTimeout: armed, cleared or fired (controller.abort() ran)
    fendpoint,   \* whether the remote end ever answers
    fcause,      \* how the underlying fetch() ended
    ferror,      \* the error fetchWithTimeout rejected with
    fstatus,     \* response.status of a non-2xx response
    fbody,       \* what response.text() gave for the HttpError
    fsettledAt,  \* Date.now() when the call settled
    fcalls,      \* underlying fetch() invocations of the call
    fresp,       \* the Response the underlying fetch() resolved with, if any
    fcaught,     \* the value the catch block caught, if any
    fthrown,     \* the value fetchWithTimeout rejected with, if any
    freturned,   \* the Response fetchWithTimeout resolved with, if any
    cfConfig,    \* ConfigurableFetch.config
    cfMemory,    \* ConfigurableFetch.memoryCache is set
    cfDisk,      \* ConfigurableFetch.diskCache is set
    cfpc,        \* position of the ConfigurableFetch.fetch / clearCaches call
    cfCall,      \* the fetch call: its options and what the synchronous part decided
    cfUnder,     \* what the invoked fetch function settled with, if it has
    cfReturned,  \* the Response ConfigurableFetch.fetch resolved with, if any
    cfThrown,    \* the Error ConfigurableFetch.fetch rejected with, if any
    cfPrev,      \* history: noCache, backend and function of the previous fetch call
    cfUpdate,    \* history: argument, previous config and outcome of the last updateConfig
    cfClear,     \* history: what the last clearCaches call did
    thpc,        \* position of the CallTool handler
    thName,      \* request.params.name
    thRan,       \* history: the tools the handler has invoked for this request
    thCaught,    \* the value the handler's catch block caught, if any
    thThrown,    \* the McpError the handler rejected with, if any
    thReturned,  \* the content the handler resolved with, if any
    rqConfig,    \* ConfigurableFetch.config of tools/status.ts (retries, retryDelay, rateLimit)
    rqTimes,     \* its requestTimes
    rq,          \* each request() call: position, captured Date.now(), attempts, outcome
    rqPassed     \* history: when each call proceeded past checkRateLimit()

limVars == <<maxRequests, windowMs, requests, pc, wakeAt, running, recent, raced, waits>>
opHist == <<opInput, opReturn, opThrown, opCaught, opReqs, opFirst, opWaited, opBefore>>
opVars == <<opKind, opResult, issued, opHist>>
fobjVars == <<fresp, fcaught, fthrown, freturned>>
fetVars == <<fpc, ftimeout, fstart, ftimer, fendpoint, fcause, ferror, fstatus, fbody,
             fsettledAt, fcalls, fobjVars>>
cfVars == <<cfConfig, cfMemory, cfDisk, cfpc, cfCall, cfUnder, cfReturned, cfThrown,
           cfPrev, cfUpdate, cfClear>>
srvVars == <<thpc, thName, thRan, thCaught, thThrown, thReturned>>
rqVars == <<rqConfig, rqTimes, rq, rqPassed>>
extVars == <<srvVars, rqVars>>
vars == <<now, limVars, opVars, fetVars, cfVars, extVars>>

\* ------------------------------------------------------------ RateLimiter

\* mutants of cleanup(): purging one clock step too early, keeping the entry that
\* is exactly windowMs old, never purging, and recording the check as an admission
CleanupEarly(reqs, t) == SelectSeq(reqs, LAMBDA time : time > t - windowMs + TickMs)
CleanupKeepsBoundary(reqs, t) == SelectSeq(reqs, LAMBDA time : time >= t - windowMs)
CleanupNever(reqs, t) == reqs
CleanupAndRecord(reqs, t) == Append(SelectSeq(reqs, LAMBDA time : time > t - windowMs), t)

\* cleanup(): this.requests.filter((time) => time > Date.now() - windowMs)
Cleanup(reqs, t) == SelectSeq(reqs, LAMBDA time : time > t - windowMs)

\* mutant of canMakeRequest(): `<=` for `<`
CanMakeRequestOffByOne(reqs) == Len(reqs) <= maxRequests

\* canMakeRequest(), after its cleanup(): this.requests.length < this.maxRequests
CanMakeRequest(reqs) == Len(reqs) < maxRequests

\* oldestRequest + this.windowMs - Date.now(); only read when requests[0] exists
WaitTimeLate(reqs, t) == reqs[1] + windowMs - t + TickMs
WaitTime(reqs, t) == reqs[1] + windowMs - t

\* `if (waitTime > 0)`: with an empty array requests[0] is undefined, waitTime is
\* NaN and the comparison is false
ShouldSleep(reqs, t) == Len(reqs) > 0 /\ WaitTime(reqs, t) > 0

\* setTimeout(resolve, waitTime + 100)
SleepMs(reqs, t) == WaitTime(reqs, t) + Slack

\* recordRequest(): this.requests.push(Date.now())
RecordRequest(reqs, t) == Append(reqs, t)

\* callers between entering waitForSlot() and their recordRequest()
InFlight == {c \in Callers : pc[c] \notin Rest}

\* the model stops starting calls once MaxRecords admissions are recorded or due
MayStart == now <= LastCall /\ Len(recent) + Cardinality(InFlight) < MaxRecords

\* ------------------------------------------- ConfigurableFetch: configuration

DefaultCacheTtl == 300000
FetchBackends == {"built-in", "cache-memory", "cache-disk"}
CachedBackends == {"cache-memory", "cache-disk"}

\* header maps: functions from header keys to values
NoHeaders == [k \in {} |-> ""]
DefaultHeaderChoices ==
    {NoHeaders, [k \in {"X-A"} |-> "1"], [k \in {"X-A", "User-Agent"} |->
                                             IF k = "X-A" THEN "1" ELSE "UA0"]}
PerCallHeaderChoices ==
    {NoHeaders, [k \in {"X-A"} |-> "2"], [k \in {"X-A", "User-Agent"} |->
                                             IF k = "X-A" THEN "2" ELSE "UA2"]}
\* how the caller passes its headers: a plain object, an array of pairs, a Headers
HeaderForms == {"object", "array", "Headers"}

\* a Partial<FetchConfig>: every key absent (<<>>) or given (<<value>>)
PartialConfigs ==
    [backend : {<<>>, <<"built-in">>, <<"cache-memory">>, <<"cache-disk">>,
                <<"invalid-backend">>},
     cacheTtl : {<<>>, <<1000>>, <<0>>},
     userAgent : {<<>>, <<"">>, <<"UA1">>},
     defaultHeaders : {<<>>} \cup {<<h>> : h \in DefaultHeaderChoices}]

NoConfig == [backend |-> <<>>, cacheTtl |-> <<>>, userAgent |-> <<>>,
             defaultHeaders |-> <<>>]

\* { ...a, ...b }: the keys of b override those of a
Spread(a, b) ==
    [backend |-> IF b.backend # <<>> THEN b.backend ELSE a.backend,
     cacheTtl |-> IF b.cacheTtl # <<>> THEN b.cacheTtl ELSE a.cacheTtl,
     userAgent |-> IF b.userAgent # <<>> THEN b.userAgent ELSE a.userAgent,
     defaultHeaders |-> IF b.defaultHeaders # <<>> THEN b.defaultHeaders
                        ELSE a.defaultHeaders]

\* FetchConfigSchema accepts the object: backend is a member of the enum and
\* cacheTtl, when given, is positive
SchemaAccepts(c) ==
    /\ c.backend # <<>>
    /\ c.backend[1] \in FetchBackends
    /\ c.cacheTtl # <<>> => c.cacheTtl[1] > 0

\* the object FetchConfigSchema.parse returns for an accepted one: defaults filled in
SchemaOutput(c) ==
    [c EXCEPT !.cacheTtl = IF @ = <<>> THEN <<DefaultCacheTtl>> ELSE @,
              !.defaultHeaders = IF @ = <<>> THEN <<NoHeaders>> ELSE @]

\* mutant of updateConfig: the merged object is stored before it is validated
UpdatedConfigUnchecked(old, new) == SchemaOutput(Spread(old, new))

\* this.config after updateConfig(new): parse throws before the assignment
UpdatedConfig(old, new) ==
    IF SchemaAccepts(Spread(old, new)) THEN SchemaOutput(Spread(old, new)) ELSE old

\* the constructor's argument for FetchConfigSchema.parse
ConstructorInput(config) == Spread([NoConfig EXCEPT !.backend = <<"built-in">>], config)

\* initializeCaches(): both fields are set unless the try block fails before the
\* first assignment, which leaves them as they were
InitializeCaches(ok, field) == IF ok THEN TRUE ELSE field

InitFacade ==
    /\ cfConfig = SchemaOutput(ConstructorInput(NoConfig))
    /\ cfMemory = InitializeCaches(TRUE, FALSE)
    /\ cfDisk = InitializeCaches(TRUE, FALSE)
    /\ cfpc = "idle"
    /\ cfCall = <<>>
    /\ cfUnder = <<>>
    /\ cfReturned = <<>>
    /\ cfThrown = <<>>
    /\ cfPrev = <<>>
    /\ cfUpdate = <<>>
    /\ cfClear = <<>>

\* a request() call that has not been made
IdleCall == [pc |-> "idle", t0 |-> 0, wake |-> 0, attempt |-> 0, sleeps |-> <<>>,
             tries |-> <<>>, out |-> <<>>]

InitOps ==
    /\ opKind = "none"
    /\ opResult = "none"
    /\ issued = <<>>
    /\ opInput = "none"
    /\ opReturn = <<>>
    /\ opThrown = <<>>
    /\ opCaught = <<>>
    /\ opReqs = <<>>
    /\ opFirst = <<>>
    /\ opWaited = FALSE
    /\ opBefore = <<>>

InitFetch ==
    /\ fpc = "idle"
    /\ ftimeout = 0
    /\ fstart = 0
    /\ ftimer = "none"
    /\ fendpoint = "none"
    /\ fcause = "none"
    /\ ferror = "none"
    /\ fstatus = 0
    /\ fbody = "none"
    /\ fsettledAt = 0
    /\ fcalls = 0
    /\ fresp = <<>>
    /\ fcaught = <<>>
    /\ fthrown = <<>>
    /\ freturned = <<>>

\* a waitForSlot() call that has not suspended; `later`: another caller entered
\* waitForSlot() while this one was suspended, `overtaken`: and returned from it
NoWait == [cycles |-> 0, later |-> FALSE, overtaken |-> FALSE]

\* another caller enters waitForSlot(): the suspended callers have a later arrival
Arrival(c) ==
    [d \in Callers |->
        IF d = c THEN NoWait
        ELSE IF pc[d] = "sleeping" THEN [waits[d] EXCEPT !.later = TRUE] ELSE waits[d]]

\* a caller returns from waitForSlot(): the suspended callers it arrived after are
\* overtaken
Overtaking(c) ==
    [d \in Callers |->
        IF d # c /\ pc[d] = "sleeping" /\ waits[d].later
        THEN [waits[d] EXCEPT !.overtaken = TRUE] ELSE waits[d]]

InitLimiter ==
    /\ now = 0
    /\ maxRequests \in 0..MaxN
    /\ windowMs \in WindowChoices
    /\ requests = <<>>
    /\ pc = [c \in Callers |-> "idle"]
    /\ wakeAt = [c \in Callers |-> 0]
    /\ running = NoOne
    /\ recent = <<>>
    /\ raced = FALSE
    /\ waits = [c \in Callers |-> NoWait]

\* the clock advances
Tick ==
    /\ now + TickMs <= MaxTime
    /\ now' = now + TickMs
    /\ UNCHANGED <<limVars, opVars, extVars, fetVars, cfVars>>

\* a caller enters waitForSlot() and reaches the head of its while loop
CallWaitForSlot(c) ==
    /\ pc[c] \in Rest
    /\ running = NoOne
    /\ MayStart
    /\ pc' = [pc EXCEPT ![c] = "loop"]
    /\ running' = c
    /\ waits' = Arrival(c)
    /\ UNCHANGED <<opVars, extVars, fetVars, cfVars>>
    /\ UNCHANGED <<now, maxRequests, windowMs, requests, wakeAt, recent, raced>>

\* `while (!this.canMakeRequest())`: cleanup, then the comparison; a passed check
\* resolves waitForSlot() and the caller's continuation is queued
LoopCheck(c) ==
    /\ pc[c] = "loop"
    /\ running = c
    /\ LET kept == Cleanup(requests, now)
       IN /\ requests' = kept
          /\ IF CanMakeRequest(kept)
             THEN /\ pc' = [pc EXCEPT ![c] = "returned"]
                  /\ running' = NoOne
                  /\ raced' = (raced \/ \E d \in Callers \ {c} : pc[d] = "returned")
                  /\ waits' = Overtaking(c)
             ELSE /\ pc' = [pc EXCEPT ![c] = "blocked"]
                  /\ UNCHANGED <<running, raced, waits>>
    /\ UNCHANGED <<opVars, extVars, fetVars, cfVars>>
    /\ UNCHANGED <<now, maxRequests, windowMs, wakeAt, recent>>

\* loop body after a failed check: compute waitTime with a fresh Date.now(); either
\* suspend on setTimeout, or fall through to this.cleanup() and the next check
ComputeWait(c) ==
    /\ pc[c] = "blocked"
    /\ running = c
    /\ IF ShouldSleep(requests, now)
       THEN /\ pc' = [pc EXCEPT ![c] = "sleeping"]
            /\ wakeAt' = [wakeAt EXCEPT ![c] = now + SleepMs(requests, now)]
            /\ running' = NoOne
            /\ waits' = [waits EXCEPT ![c].cycles = @ + 1]
            /\ UNCHANGED requests
       ELSE /\ pc' = [pc EXCEPT ![c] = "loop"]
            /\ requests' = Cleanup(requests, now)
            /\ UNCHANGED <<wakeAt, running, waits>>
    /\ UNCHANGED <<opVars, extVars, fetVars, cfVars>>
    /\ UNCHANGED <<now, maxRequests, windowMs, recent, raced>>

\* the timer fires (not before it is due, and only once queued continuations have
\* run); the caller resumes with this.cleanup() and is back at the loop head
Wake(c) ==
    /\ pc[c] = "sleeping"
    /\ running = NoOne
    /\ now >= wakeAt[c]
    /\ \A d \in Callers : pc[d] # "returned"
    /\ pc' = [pc EXCEPT ![c] = "loop"]
    /\ running' = c
    /\ requests' = Cleanup(requests, now)
    /\ UNCHANGED <<opVars, extVars, fetVars, cfVars>>
    /\ UNCHANGED <<now, maxRequests, windowMs, waits, wakeAt, recent, raced>>

\* the caller's continuation after `await waitForSlot()` calls recordRequest()
RecordAfterWait(c) ==
    /\ pc[c] = "returned"
    /\ running = NoOne
    /\ requests' = RecordRequest(requests, now)
    /\ recent' = Append(recent, now)
    /\ pc' = [pc EXCEPT ![c] = "recorded"]
    /\ UNCHANGED <<opVars, extVars, fetVars, cfVars>>
    /\ UNCHANGED <<now, maxRequests, windowMs, waits, wakeAt, running, raced>>

\* the caller's continuation gives up without calling recordRequest()
Abort(c) ==
    /\ pc[c] = "returned"
    /\ running = NoOne
    /\ pc' = [pc EXCEPT ![c] = "aborted"]
    /\ UNCHANGED <<opVars, extVars, fetVars, cfVars>>
    /\ UNCHANGED <<now, maxRequests, windowMs, waits, requests, wakeAt, running, recent,
                   raced>>

\* recordRequest() called on its own (no waitForSlot() before it)
BareRecord(c) ==
    /\ pc[c] \in Rest
    /\ running = NoOne
    /\ MayStart
    /\ requests' = RecordRequest(requests, now)
    /\ recent' = Append(recent, now)
    /\ pc' = [pc EXCEPT ![c] = "recorded"]
    /\ UNCHANGED <<opVars, extVars, fetVars, cfVars>>
    /\ UNCHANGED <<now, maxRequests, windowMs, waits, wakeAt, running, raced>>

\* canMakeRequest() called on its own
CallCanMakeRequest(c) ==
    /\ pc[c] \in Rest
    /\ running = NoOne
    /\ LET kept == Cleanup(requests, now)
       IN /\ requests' = kept
          /\ pc' = [pc EXCEPT ![c] = IF CanMakeRequest(kept) THEN "canTrue" ELSE "canFalse"]
    /\ UNCHANGED <<opVars, extVars, fetVars, cfVars>>
    /\ UNCHANGED <<now, maxRequests, windowMs, waits, wakeAt, running, recent, raced>>

\* any interleaving of the three public methods by the callers
Next ==
    \/ Tick
    \/ \E c \in Callers : CallWaitForSlot(c)
    \/ \E c \in Callers : LoopCheck(c)
    \/ \E c \in Callers : ComputeWait(c)
    \/ \E c \in Callers : Wake(c)
    \/ \E c \in Callers : RecordAfterWait(c)
    \/ \E c \in Callers : Abort(c)
    \/ \E c \in Callers : BareRecord(c)
    \/ \E c \in Callers : CallCanMakeRequest(c)

InitServer ==
    /\ thpc = "idle"
    /\ thName = "none"
    /\ thRan = <<>>
    /\ thCaught = <<>>
    /\ thThrown = <<>>
    /\ thReturned = <<>>

InitRequest ==
    /\ rqConfig = [retries |-> 3, retryDelay |-> 1000, rateLimit |-> 60]
    /\ rqTimes = <<>>
    /\ rq = [c \in Callers |-> IdleCall]
    /\ rqPassed = <<>>

InitExt == InitServer /\ InitRequest

Init == InitLimiter /\ InitOps /\ InitFetch /\ InitFacade /\ InitExt

Spec == Init /\ [][Next]_vars

\* two callers that each pair waitForSlot() with recordRequest(), or give up after the wait
NextPairs ==
    \/ Tick
    \/ \E c \in Callers : CallWaitForSlot(c)
    \/ \E c \in Callers : LoopCheck(c)
    \/ \E c \in Callers : ComputeWait(c)
    \/ \E c \in Callers : Wake(c)
    \/ \E c \in Callers : RecordAfterWait(c)
    \/ \E c \in Callers : Abort(c)

SpecPairs == Init /\ [][NextPairs]_vars

\* one caller issuing waitForSlot()-then-recordRequest() pairs one after the other
NextSeq ==
    \/ Tick
    \/ CallWaitForSlot("c1")
    \/ LoopCheck("c1")
    \/ ComputeWait("c1")
    \/ Wake("c1")
    \/ RecordAfterWait("c1")

\* the clock keeps advancing, a due timer fires and a runnable continuation runs;
\* nothing obliges the caller to start another call
FairSeq ==
    /\ WF_vars(Tick)
    /\ WF_vars(LoopCheck("c1"))
    /\ WF_vars(ComputeWait("c1"))
    /\ WF_vars(Wake("c1"))
    /\ WF_vars(RecordAfterWait("c1"))

SpecSeq == Init /\ [][NextSeq]_vars /\ FairSeq

\* one caller using the three public methods in any order
NextSolo ==
    \/ Tick
    \/ CallWaitForSlot("c1")
    \/ LoopCheck("c1")
    \/ ComputeWait("c1")
    \/ Wake("c1")
    \/ RecordAfterWait("c1")
    \/ BareRecord("c1")
    \/ CallCanMakeRequest("c1")

SpecSolo == Init /\ [][NextSolo]_vars /\ FairSeq

\* ---------------------------------------------------------- fetchWithTimeout

DefaultTimeout == 30000
\* options.timeout: absent (<<>>) or a number of milliseconds (<<ms>>)
TimeoutOptions == {<<>>, <<0>>, <<2 * TickMs>>}
Statuses == {200, 299, 300, 404, 429, 500}
Bodies == {"", "Not Found"}
RejectKinds == {"Error", "AbortError", "nonError"}
\* messages of the errors the underlying fetch() rejects with
Messages == {"Network error", "fetch failed"}

\* const { timeout = 30000, ...fetchOptions } = options
TimeoutOf(opt) == IF opt = <<>> THEN DefaultTimeout ELSE opt[1]

\* mutant of the timeout timer: due as soon as it is set
TimerDueAtOnce(start, timeout, t) == t >= start

\* setTimeout(() => controller.abort(), timeout): not before `timeout` ms have passed
TimerDue(start, timeout, t) == t >= start + timeout

\* response.ok
StatusOk(s) == 200 <= s /\ s <= 299

\* the catch block: what fetchWithTimeout rejects with for a caught value of the
\* given kind (an Error of that name, or a value that is no Error)
Classify(kind) ==
    IF kind = "nonError" THEN "network"
    ELSE IF kind = "AbortError" THEN "timeout"
    ELSE IF kind = "HttpError" THEN "http"
    ELSE "rethrown"

\* a Response as the underlying fetch() produces it; `clone` tells a copy made by
\* response.clone() from the object itself
ResponseOf(s, b) == [status |-> s, body |-> b, clone |-> FALSE]
Clone(r) == [r EXCEPT !.clone = TRUE]

\* a thrown value: class "HttpError" (the typed error), "Error" (any other Error) or
\* "nonError"; status and response are absent (<<>>) or present (<<v>>)
ErrorOf(class, name, message, status, response) ==
    [class |-> class, name |-> name, message |-> message, status |-> status,
     response |-> response]

\* new HttpError(message, status, response): this.name = 'HttpError'
HttpError(message, status, response) ==
    ErrorOf("HttpError", "HttpError", message, status, response)

\* the value the underlying fetch() rejects with
RejectionOf(kind, m) ==
    IF kind = "nonError" THEN ErrorOf("nonError", "", m, <<>>, <<>>)
    ELSE ErrorOf("Error", kind, m, <<>>, <<>>)

\* mutant of the body read: the text is dropped
BodyTextDropped(readable, body) == ""

\* await response.text().catch(() => '')
BodyText(readable, body) == IF readable THEN body ELSE ""

\* catch (error): an Error named AbortError becomes the timeout HttpError, any other
\* Error is thrown again as it is, a value that is no Error becomes an HttpError
CatchBlock(e) ==
    IF e.class # "nonError"
    THEN IF e.name = "AbortError"
         THEN HttpError("Request timeout after <timeout>ms", <<>>, <<>>)
         ELSE e
    ELSE HttpError("Network error occurred", <<>>, <<>>)

\* mutant of clearTimeout: the timer is left as it is
ClearTimeoutNoop(timer) == timer

\* clearTimeout(timeoutId): a pending timer is cancelled, a fired one stays fired
ClearTimeout(timer) == IF timer = "armed" THEN "cleared" ELSE timer

\* mutant of the success path: a copy of the response is returned
ReturnClone(r) == Clone(r)

\* return response
ReturnResponse(r) == r

\* fetchWithTimeout(url, options) runs up to `await fetch(...)`
FetchCall(opt, endpoint) ==
    /\ fpc \in {"idle", "resolved", "rejected"}
    /\ fpc' = "pending"
    /\ ftimeout' = TimeoutOf(opt)
    /\ fstart' = now
    /\ ftimer' = "armed"
    /\ fendpoint' = endpoint
    /\ fcause' = "none"
    /\ ferror' = "none"
    /\ fstatus' = 0
    /\ fbody' = "none"
    /\ fsettledAt' = now
    /\ fcalls' = 1
    /\ fresp' = <<>>
    /\ fcaught' = <<>>
    /\ fthrown' = <<>>
    /\ freturned' = <<>>
    /\ UNCHANGED <<now, limVars, opVars, extVars, cfVars>>

\* the timeout timer fires: controller.abort()
TimerFire ==
    /\ ftimer = "armed"
    /\ TimerDue(fstart, ftimeout, now)
    /\ ftimer' = "fired"
    /\ UNCHANGED <<now, limVars, opVars, extVars, cfVars, fpc, ftimeout, fstart, fendpoint, fcause,
                   ferror,
                   fstatus, fbody, fsettledAt, fcalls, fobjVars>>

\* the aborted fetch rejects with an AbortError, caught by the catch block
AbortReject ==
    /\ fpc = "pending"
    /\ ftimer = "fired"
    /\ fpc' = "rejected"
    /\ fcause' = "aborted"
    /\ ferror' = Classify("AbortError")
    /\ fcaught' = <<RejectionOf("AbortError", "This operation was aborted")>>
    /\ fthrown' = <<CatchBlock(fcaught'[1])>>
    /\ fsettledAt' = now
    /\ ftimer' = ClearTimeout(ftimer)
    /\ UNCHANGED <<now, limVars, opVars, extVars, cfVars, ftimeout, fstart, fendpoint, fstatus,
                   fbody, fcalls, fresp, freturned>>

\* the fetch resolves with a response of status s and body b: clearTimeout, then
\* either the response is returned or its body is read for the HttpError
Respond(s, b) ==
    /\ fpc = "pending"
    /\ ftimer = "armed"
    /\ fendpoint = "responsive"
    /\ ftimer' = ClearTimeout(ftimer)
    /\ fcause' = "response"
    /\ fresp' = <<ResponseOf(s, b)>>
    /\ IF StatusOk(s)
       THEN /\ fpc' = "resolved"
            /\ fsettledAt' = now
            /\ freturned' = <<ReturnResponse(fresp'[1])>>
            /\ UNCHANGED fstatus
       ELSE /\ fpc' = "readingBody"
            /\ fstatus' = s
            /\ UNCHANGED <<fsettledAt, freturned>>
    /\ UNCHANGED <<now, limVars, opVars, extVars, cfVars, ftimeout, fstart, fendpoint, ferror,
                   fbody,
                   fcalls, fcaught, fthrown>>

\* response.text() settles (a failed read gives ''), the HttpError is thrown and
\* passes through the catch block
BodyRead(readable) ==
    /\ fpc = "readingBody"
    /\ fpc' = "rejected"
    /\ ferror' = Classify("HttpError")
    /\ fbody' = IF readable THEN "text" ELSE "empty"
    /\ fcaught' = <<HttpError("HTTP <status>: <statusText>", <<fresp[1].status>>,
                              <<BodyText(readable, fresp[1].body)>>)>>
    /\ fthrown' = <<CatchBlock(fcaught'[1])>>
    /\ fsettledAt' = now
    /\ ftimer' = ClearTimeout(ftimer)
    /\ UNCHANGED <<now, limVars, opVars, extVars, cfVars, ftimeout, fstart, fendpoint, fcause,
                   fstatus, fcalls, fresp, freturned>>

\* the fetch rejects by itself, before the timer fired, with a value of the given
\* kind and message
UnderlyingReject(kind, m) ==
    /\ fpc = "pending"
    /\ ftimer = "armed"
    /\ fendpoint = "responsive"
    /\ ftimer' = ClearTimeout(ftimer)
    /\ fcause' = kind
    /\ fpc' = "rejected"
    /\ ferror' = Classify(kind)
    /\ fcaught' = <<RejectionOf(kind, m)>>
    /\ fthrown' = <<CatchBlock(fcaught'[1])>>
    /\ fsettledAt' = now
    /\ UNCHANGED <<now, limVars, opVars, extVars, cfVars, ftimeout, fstart, fendpoint, fstatus,
                   fbody,
                   fcalls, fresp, freturned>>

NextFetch ==
    \/ Tick
    \/ \E opt \in TimeoutOptions, endpoint \in {"responsive", "silent"} :
          FetchCall(opt, endpoint)
    \/ TimerFire
    \/ AbortReject
    \/ \E s \in Statuses, b \in Bodies : Respond(s, b)
    \/ \E readable \in BOOLEAN : BodyRead(readable)
    \/ \E kind \in RejectKinds, m \in Messages : UnderlyingReject(kind, m)

\* the clock keeps advancing, a due timer fires and an aborted fetch rejects
FairFetch ==
    /\ WF_vars(Tick)
    /\ WF_vars(TimerFire)
    /\ WF_vars(AbortReject)

SpecFetch == Init /\ [][NextFetch]_vars /\ FairFetch

\* -------------------------------------------------------- domain operations
\* saveUrl, getArchivedUrl, searchArchives and checkArchiveStatus share one limiter
\* (waybackRateLimiter).  Each validates its input, awaits waitForSlot(), then calls
\* recordRequest() and fetchWithTimeout() in one synchronous section, all inside one
\* try block whose catch turns the thrown value into a result object.  The outcome of
\* a fetchWithTimeout call and the content of a response are inputs.

OpKinds == {"save", "get", "search", "status"}
FetchOutcomes == {"ok", "http404", "http429", "http500", "timeout", "network"}
\* input URLs: one that is accepted, one that new URL() rejects, one of another scheme
Urls == {"https://example.com/", "not-a-url", "ftp://example.com/"}

\* response.headers.get(name) of the first response of saveUrl: null (<<>>) or a value
ArchivedPath == "/web/20231225120000/https://example.com/"
HeaderValues == {<<>>, <<ArchivedPath>>, <<"/save/status">>}

\* every operation records at most two admissions
OpMayStart == now <= LastCall /\ Len(recent) + 2 <= MaxRecords

\* new URL(url).protocol, or nothing when new URL(url) throws
ProtocolOf(url) ==
    IF url = "https://example.com/" THEN <<"https:">>
    ELSE IF url = "ftp://example.com/" THEN <<"ftp:">>
    ELSE <<>>

\* validateUrl(url): the error it throws, or nothing when it returns parsed.href; the
\* scheme error is thrown inside the try block and wrapped like a parse error
ValidateUrl(url) ==
    IF ProtocolOf(url) = <<>>
    THEN <<ErrorOf("Error", "Error", "Invalid URL: Invalid URL", <<>>, <<>>)>>
    ELSE IF ProtocolOf(url)[1] \notin {"http:", "https:"}
         THEN <<ErrorOf("Error", "Error",
                        "Invalid URL: Only HTTP and HTTPS URLs are supported", <<>>, <<>>)>>
         ELSE <<>>

\* mutant of the checks before the limiter: nothing is checked
ThrownBeforeWaitNothing(kind, url, extraOk) == <<>>

\* what the operation throws before it reaches waitForSlot(): the error of
\* validateUrl, of formatTimestamp (getArchivedUrl) or of the date format check
\* (searchArchives); `extraOk` says that the timestamp or the dates are well formed
ThrownBeforeWait(kind, url, extraOk) ==
    IF ValidateUrl(url) # <<>> THEN ValidateUrl(url)
    ELSE IF kind = "get" /\ ~extraOk
         THEN <<ErrorOf("Error", "Error",
                  "Timestamp must be in format: YYYY, YYYYMM, YYYYMMDD, or YYYYMMDDhhmmss",
                  <<>>, <<>>)>>
         ELSE IF kind = "search" /\ ~extraOk
              THEN <<ErrorOf("Error", "Error", "From date must be in YYYY-MM-DD format",
                             <<>>, <<>>)>>
              ELSE <<>>

\* mutant of the header choice: Content-Location is preferred to Location
ArchivedUrlContentFirst(location, contentLocation) ==
    IF contentLocation # <<>> /\ contentLocation[1] # "" THEN contentLocation ELSE location

\* const archivedUrl = location || contentLocation
ArchivedUrl(location, contentLocation) ==
    IF location # <<>> /\ location[1] # "" THEN location ELSE contentLocation

\* archivedUrl?.includes('/web/')
IncludesWeb(v) == v # <<>> /\ v[1] = ArchivedPath

\* what a fetchWithTimeout call with the given outcome rejects with
ThrownBy(out) ==
    IF out = "http404" THEN CatchBlock(HttpError("HTTP 404: Not Found", <<404>>, <<"">>))
    ELSE IF out = "http429"
         THEN CatchBlock(HttpError("HTTP 429: Too Many Requests", <<429>>, <<"">>))
    ELSE IF out = "http500"
         THEN CatchBlock(HttpError("HTTP 500: Internal Server Error", <<500>>, <<"">>))
    ELSE IF out = "timeout"
         THEN CatchBlock(RejectionOf("AbortError", "This operation was aborted"))
    ELSE CatchBlock(RejectionOf("Error", "fetch failed"))

\* parseJsonResponse: a body that is not JSON becomes an HttpError without status
ParseError == HttpError("Failed to parse JSON response", <<>>, <<>>)

\* a result object; message is the list of the parts of its template string, the
\* domain fields are absent (<<>>) or present (<<v>>); `results` is the number of rows
Result(success, message) ==
    [success |-> success, message |-> message, isArchived |-> <<>>,
     totalCaptures |-> <<>>, results |-> <<>>, totalResults |-> <<>>]

Prefix(kind) ==
    IF kind = "save" THEN "Failed to save URL: "
    ELSE IF kind = "get" THEN "Failed to retrieve archived URL: "
    ELSE IF kind = "search" THEN "Failed to search archives: "
    ELSE "Failed to check archive status: "

\* error instanceof Error ? error.message : 'Unknown error'
MessageOf(e) == IF e.class = "nonError" THEN "Unknown error" ELSE e.message

\* the failure result of an operation
Failure(kind, e) ==
    IF kind = "status"
    THEN [Result(FALSE, <<Prefix(kind), MessageOf(e)>>) EXCEPT !.isArchived = <<FALSE>>]
    ELSE Result(FALSE, <<Prefix(kind), MessageOf(e)>>)

\* the "not found" result of searchArchives and checkArchiveStatus
NotFound(kind, url) ==
    IF kind = "status"
    THEN [Result(TRUE, <<url, " has not been archived">>)
             EXCEPT !.isArchived = <<FALSE>>, !.totalCaptures = <<0>>]
    ELSE [Result(TRUE, <<"No archived versions found for ", url>>)
             EXCEPT !.results = <<0>>, !.totalResults = <<0>>]

\* mutant of the catch blocks: a 404 is a "not found" result in every operation
CatchResultNotFoundEverywhere(kind, url, e) ==
    IF e.class = "HttpError" /\ e.status = <<404>>
    THEN NotFound(kind, url)
    ELSE Failure(kind, e)

\* the catch block of each operation: the result it returns for the caught value
CatchResult(kind, url, e) ==
    IF e.class = "HttpError"
    THEN IF kind = "save" /\ e.status = <<429>>
         THEN Result(FALSE, <<"Rate limit exceeded. Please try again later.">>)
         ELSE IF kind \in {"search", "status"} /\ e.status = <<404>>
              THEN NotFound(kind, url)
              ELSE Failure(kind, e)
    ELSE Failure(kind, e)

\* mutant of the try block: only HttpErrors are caught
OpSettleHttpOnly(kind, url, e) ==
    IF e.class = "HttpError"
    THEN [returned |-> <<CatchResult(kind, url, e)>>, thrown |-> <<>>]
    ELSE [returned |-> <<>>, thrown |-> <<e>>]

\* try { ... } catch (error) { return ... }: every value thrown in the body is
\* caught and a result is returned
OpSettle(kind, url, e) == [returned |-> <<CatchResult(kind, url, e)>>, thrown |-> <<>>]

\* the `success` field an operation returns for an error thrown by fetchWithTimeout
OnFetchError(kind, out) ==
    IF CatchResult(kind, "https://example.com/", ThrownBy(out)).success
    THEN "success" ELSE "failure"

SuccessOf(r) == IF r = <<>> THEN "none" ELSE IF r[1].success THEN "success" ELSE "failure"

\* the operation returns the result r
Finish(c, r) ==
    /\ pc' = [pc EXCEPT ![c] = "done"]
    /\ opReturn' = <<r>>
    /\ opResult' = SuccessOf(opReturn')
    /\ UNCHANGED <<requests, recent, issued, opThrown, opCaught, opReqs>>

\* an inner try block catches e and the operation returns the result r
FinishCaught(c, r, e) ==
    /\ pc' = [pc EXCEPT ![c] = "done"]
    /\ opCaught' = <<e>>
    /\ opReturn' = <<r>>
    /\ opResult' = SuccessOf(opReturn')
    /\ UNCHANGED <<requests, recent, issued, opThrown, opReqs>>

\* the body of the operation throws e
Fail(c, kind, url, e) ==
    /\ pc' = [pc EXCEPT ![c] = "done"]
    /\ opCaught' = <<e>>
    /\ opReturn' = OpSettle(kind, url, e).returned
    /\ opThrown' = OpSettle(kind, url, e).thrown
    /\ opResult' = SuccessOf(opReturn')
    /\ UNCHANGED <<requests, recent, issued, opReqs>>

\* the operation is called with a URL; an error thrown before waitForSlot() is caught
\* into a result before any limiter call
StartOp(c, kind, url, extraOk) ==
    /\ pc[c] \in Rest
    /\ running = NoOne
    /\ OpMayStart
    /\ opKind' = kind
    /\ opInput' = url
    /\ opBefore' = requests
    /\ opFirst' = <<>>
    /\ IF ThrownBeforeWait(kind, url, extraOk) = <<>>
       THEN /\ pc' = [pc EXCEPT ![c] = "loop"]
            /\ running' = c
            /\ waits' = Arrival(c)
            /\ opWaited' = TRUE
            /\ opResult' = "none"
            /\ opReturn' = <<>>
            /\ opThrown' = <<>>
            /\ opCaught' = <<>>
            /\ opReqs' = <<>>
            /\ UNCHANGED <<requests, recent, issued>>
       ELSE /\ opWaited' = FALSE
            /\ opReqs' = <<>>
            /\ pc' = [pc EXCEPT ![c] = "done"]
            /\ opCaught' = <<ThrownBeforeWait(kind, url, extraOk)[1]>>
            /\ opReturn' = OpSettle(kind, url, opCaught'[1]).returned
            /\ opThrown' = OpSettle(kind, url, opCaught'[1]).thrown
            /\ opResult' = SuccessOf(opReturn')
            /\ UNCHANGED <<running, requests, recent, issued, waits>>
    /\ UNCHANGED <<now, maxRequests, windowMs, wakeAt, raced, fetVars, cfVars, extVars>>

\* after `await waitForSlot()`: recordRequest(), then the first fetchWithTimeout
IssueFirst(c) ==
    /\ pc[c] = "returned"
    /\ running = NoOne
    /\ requests' = RecordRequest(requests, now)
    /\ recent' = Append(recent, now)
    /\ issued' = Append(issued, [at |-> now, waited |-> TRUE, recorded |-> TRUE])
    /\ opReqs' = Append(opReqs, "GET")
    /\ pc' = [pc EXCEPT ![c] = "fetch1"]
    /\ UNCHANGED <<now, maxRequests, windowMs, waits, wakeAt, running, raced, opKind, opResult,
                   opInput, opReturn, opThrown, opCaught, opFirst, opWaited, opBefore,
                   fetVars, cfVars, extVars>>

\* the second request of saveUrl (POST /save) and checkArchiveStatus (availability
\* API): recordRequest(), then fetchWithTimeout, with no waitForSlot() before them
IssueSecond(c) ==
    /\ requests' = RecordRequest(requests, now)
    /\ recent' = Append(recent, now)
    /\ issued' = Append(issued, [at |-> now, waited |-> FALSE, recorded |-> TRUE])
    /\ opReqs' = Append(opReqs, IF opKind = "save" THEN "POST" ELSE "GET")
    /\ pc' = [pc EXCEPT ![c] = "fetch2"]
    /\ UNCHANGED <<opResult, opReturn, opThrown, opCaught>>

\* the first fetchWithTimeout settles; `location` and `contentLocation` are the
\* Location and Content-Location headers of a response (read by saveUrl only)
FetchDone1(c, out, location, contentLocation) ==
    /\ pc[c] = "fetch1"
    /\ running = NoOne
    /\ opFirst' = IF opKind = "save" /\ out = "ok"
                  THEN <<[out |-> out, location |-> location,
                          contentLocation |-> contentLocation]>>
                  ELSE <<[out |-> out, location |-> <<>>, contentLocation |-> <<>>]>>
    /\ IF out # "ok"
       THEN Fail(c, opKind, opInput, ThrownBy(out))
       ELSE IF opKind = "save"
            THEN IF IncludesWeb(ArchivedUrl(location, contentLocation))
                 THEN Finish(c, Result(TRUE, <<"Successfully submitted ", opInput,
                                               " for archiving">>))
                 ELSE IssueSecond(c)
            ELSE /\ pc' = [pc EXCEPT ![c] = "parse1"]
                 /\ UNCHANGED <<requests, recent, issued, opResult, opReturn, opThrown,
                                opCaught, opReqs>>
    /\ UNCHANGED <<now, maxRequests, windowMs, waits, wakeAt, running, raced, opKind, opInput,
                   opWaited, opBefore, fetVars, cfVars, extVars>>

\* parseJsonResponse of the first response settles; `parsed`: the body is JSON,
\* `found`: it names a capture (closest.available, first_ts, a data row),
\* `hasTimestamp`: getArchivedUrl was given a timestamp
ParseDone1(c, parsed, found, hasTimestamp) ==
    /\ pc[c] = "parse1"
    /\ running = NoOne
    /\ IF ~parsed
       THEN Fail(c, opKind, opInput, ParseError)
       ELSE IF opKind = "status"
            THEN IF found
                 THEN Finish(c, [Result(TRUE, <<opInput, " has been archived <n> times">>)
                                    EXCEPT !.isArchived = <<TRUE>>,
                                           !.totalCaptures = <<1>>])
                 ELSE IssueSecond(c)
            ELSE IF opKind = "get"
                 THEN IF found
                      THEN Finish(c, Result(TRUE, <<"Found archived version of ",
                                                    opInput>>))
                      ELSE IF hasTimestamp
                           THEN Finish(c, Result(TRUE,
                                   <<"No confirmed archive found. You can try this URL directly:">>))
                           ELSE Finish(c, Result(FALSE,
                                   <<"No archived versions found for ", opInput>>))
                 ELSE IF found
                      THEN Finish(c, [Result(TRUE, <<"Found <n> archived version(s) of ",
                                                     opInput>>)
                                         EXCEPT !.results = <<1>>, !.totalResults = <<1>>])
                      ELSE Finish(c, [Result(TRUE, <<"No archived versions found for ",
                                                     opInput>>)
                                         EXCEPT !.results = <<0>>, !.totalResults = <<0>>])
    /\ UNCHANGED <<now, maxRequests, windowMs, waits, wakeAt, running, raced, opKind, opInput,
                   opFirst, opWaited, opBefore, fetVars, cfVars, extVars>>

\* the second fetchWithTimeout settles
FetchDone2(c, out) ==
    /\ pc[c] = "fetch2"
    /\ running = NoOne
    /\ IF out # "ok"
       THEN Fail(c, opKind, opInput, ThrownBy(out))
       ELSE /\ pc' = [pc EXCEPT ![c] = "parse2"]
            /\ UNCHANGED <<requests, recent, issued, opResult, opReturn, opThrown,
                           opCaught, opReqs>>
    /\ UNCHANGED <<now, maxRequests, windowMs, waits, wakeAt, running, raced, opKind, opInput,
                   opFirst, opWaited, opBefore, fetVars, cfVars, extVars>>

\* the body of the second response is read: saveUrl succeeds whether or not it is
\* JSON (an inner try block), checkArchiveStatus fails on a body that is not JSON
ParseDone2(c, parsed, found) ==
    /\ pc[c] = "parse2"
    /\ running = NoOne
    /\ IF opKind = "save"
       THEN IF parsed
            THEN Finish(c, Result(TRUE, <<"Successfully submitted ", opInput,
                                          " for archiving">>))
            ELSE FinishCaught(c, Result(TRUE, <<"Successfully submitted ", opInput,
                                 " for archiving. Check status in a few moments.">>),
                              ErrorOf("Error", "SyntaxError", "Unexpected token", <<>>, <<>>))
       ELSE IF ~parsed
            THEN Fail(c, opKind, opInput, ParseError)
            ELSE IF found
                 THEN Finish(c, [Result(TRUE, <<opInput, " has been archived">>)
                                    EXCEPT !.isArchived = <<TRUE>>])
                 ELSE Finish(c, [Result(TRUE, <<opInput, " has not been archived">>)
                                    EXCEPT !.isArchived = <<FALSE>>,
                                           !.totalCaptures = <<0>>])
    /\ UNCHANGED <<now, maxRequests, windowMs, waits, wakeAt, running, raced, opKind, opInput,
                   opFirst, opWaited, opBefore, fetVars, cfVars, extVars>>

\* the shared limiter is constructed with a positive quota and window
InitOpsSpec ==
    /\ Init
    /\ maxRequests >= 1
    /\ windowMs > 0

\* domain operations issued one after the other by one caller
NextOps ==
    \/ Tick
    \/ \E kind \in OpKinds, url \in Urls, extraOk \in BOOLEAN :
          StartOp("c1", kind, url, extraOk)
    \/ LoopCheck("c1")
    \/ ComputeWait("c1")
    \/ Wake("c1")
    \/ IssueFirst("c1")
    \/ \E out \in FetchOutcomes, location \in HeaderValues, contentLocation \in HeaderValues :
          FetchDone1("c1", out, location, contentLocation)
    \/ \E parsed \in BOOLEAN, found \in BOOLEAN, hasTimestamp \in BOOLEAN :
          ParseDone1("c1", parsed, found, hasTimestamp)
    \/ \E out \in FetchOutcomes : FetchDone2("c1", out)
    \/ \E parsed \in BOOLEAN, found \in BOOLEAN : ParseDone2("c1", parsed, found)

SpecOps == InitOpsSpec /\ [][NextOps]_vars

\* --------------------------------------------------- ConfigurableFetch.fetch

\* options.backend: absent (<<>>) or a value (<<backend>>)
BackendOptions ==
    {<<>>, <<"built-in">>, <<"cache-memory">>, <<"cache-disk">>, <<"unsupported">>}
UnderStatuses == {200, 404}

\* { ...a, ...b } and Object.assign(a, b) on header maps
Assign(a, b) ==
    [k \in DOMAIN a \cup DOMAIN b |-> IF k \in DOMAIN b THEN b[k] ELSE a[k]]

\* a header name as the Headers class stores and iterates it
Lower(k) ==
    IF k = "X-A" THEN "x-a" ELSE IF k = "User-Agent" THEN "user-agent" ELSE k

\* the (key, value) pairs the merge reads from the per-call headers: the keys as
\* written for a plain object or an array of pairs, lower-cased by forEach for a
\* Headers instance built from them
Entries(form, h) ==
    IF form = "Headers"
    THEN [k \in {Lower(n) : n \in DOMAIN h} |->
             h[CHOOSE n \in DOMAIN h : Lower(n) = k]]
    ELSE h

\* mergeHeaders(requestHeaders)
MergeHeaders(config, form, h) ==
    LET defaults == config.defaultHeaders[1]
        withAgent == IF config.userAgent # <<>> /\ config.userAgent[1] # ""
                     THEN Assign(defaults, [k \in {"User-Agent"} |->
                                               config.userAgent[1]])
                     ELSE defaults
    IN  Assign(withAgent, Entries(form, h))

\* mutant of the backend choice: the per-call option is ignored
EffectiveBackendConfigured(opt, configured) == configured

\* options.backend || this.config.backend
EffectiveBackend(opt, configured) == IF opt # <<>> THEN opt[1] ELSE configured

\* mutant of the cache bypass: noCache is ignored
BypassNever(noCache, backend) == FALSE

\* noCache && (backend === CACHE_MEMORY || backend === CACHE_DISK)
Bypass(noCache, backend) == noCache /\ backend \in CachedBackends

\* mutant of getFetchFunction: no fallback when the cache is not available
GetFetchFunctionNoFallback(backend, memory, disk) ==
    IF backend = "built-in" THEN [fn |-> "fetch", warned |-> FALSE, threw |-> FALSE]
    ELSE IF backend = "cache-memory"
         THEN [fn |-> "memoryCache", warned |-> FALSE, threw |-> ~memory]
    ELSE IF backend = "cache-disk"
         THEN [fn |-> "diskCache", warned |-> FALSE, threw |-> ~disk]
    ELSE [fn |-> "none", warned |-> FALSE, threw |-> TRUE]

\* getFetchFunction(backend): the function to call, whether console.warn ran,
\* whether it threw
GetFetchFunction(backend, memory, disk) ==
    IF backend = "built-in" THEN [fn |-> "fetch", warned |-> FALSE, threw |-> FALSE]
    ELSE IF backend = "cache-memory"
         THEN IF memory
              THEN [fn |-> "memoryCache", warned |-> FALSE, threw |-> FALSE]
              ELSE [fn |-> "fetch", warned |-> TRUE, threw |-> FALSE]
    ELSE IF backend = "cache-disk"
         THEN IF disk
              THEN [fn |-> "diskCache", warned |-> FALSE, threw |-> FALSE]
              ELSE [fn |-> "fetch", warned |-> TRUE, threw |-> FALSE]
    ELSE [fn |-> "none", warned |-> FALSE, threw |-> TRUE]

\* an Error of the façade; its message is written as <<prefix, backend, detail>>
FacadeError(class, prefix, backend, detail) ==
    [class |-> class, message |-> <<prefix, backend, detail>>]

\* the Error thrown by the catch block of fetch for a caught value e
FetchFailed(backend, e) ==
    FacadeError("Error", "Fetch failed (backend: <backend>): ", backend,
                IF e.class = "Error" THEN e.message[3] ELSE "Unknown error")

\* fetch(url, options) up to the call of the fetch function
FacadeFetchCall(opt, noCache, form, h) ==
    /\ cfpc \in {"idle", "settled", "cleared"}
    /\ LET backend == EffectiveBackend(opt, cfConfig.backend[1])
           direct == Bypass(noCache, backend)
           got == IF direct THEN GetFetchFunction("built-in", cfMemory, cfDisk)
                  ELSE GetFetchFunction(backend, cfMemory, cfDisk)
       IN  /\ cfCall' = <<[backendOpt |-> opt, noCache |-> noCache, form |-> form,
                           perCall |-> h, config |-> cfConfig, memory |-> cfMemory,
                           disk |-> cfDisk,
                           backend |-> backend, inTry |-> ~direct, fn |-> got.fn,
                           warned |-> got.warned,
                           headers |-> MergeHeaders(cfConfig, form, h)]>>
           /\ IF got.threw
              THEN /\ cfpc' = "settled"
                   /\ cfThrown' = <<FacadeError("Error", "Unsupported fetch backend: ",
                                                backend, "")>>
              ELSE /\ cfpc' = "awaiting"
                   /\ cfThrown' = <<>>
    /\ cfPrev' = IF cfCall = <<>> THEN <<>>
                 ELSE <<[noCache |-> cfCall[1].noCache, backend |-> cfCall[1].backend,
                         fn |-> cfCall[1].fn]>>
    /\ cfUnder' = <<>>
    /\ cfReturned' = <<>>
    /\ UNCHANGED <<cfConfig, cfMemory, cfDisk, cfUpdate, cfClear>>
    /\ UNCHANGED <<now, limVars, opVars, extVars, fetVars>>

\* the called fetch function resolves with a response of status s
UnderResolve(s) ==
    /\ cfpc = "awaiting"
    /\ cfpc' = "settled"
    /\ cfUnder' = <<[response |-> <<ResponseOf(s, "Not Found")>>, error |-> <<>>]>>
    /\ cfReturned' = IF cfCall[1].inTry THEN <<Clone(ResponseOf(s, "Not Found"))>>
                     ELSE <<ResponseOf(s, "Not Found")>>
    /\ UNCHANGED <<cfConfig, cfMemory, cfDisk, cfCall, cfThrown, cfPrev, cfUpdate,
                   cfClear>>
    /\ UNCHANGED <<now, limVars, opVars, extVars, fetVars>>

\* the called fetch function rejects with an Error of message m, or with a value
\* that is no Error
UnderReject(class, m) ==
    /\ cfpc = "awaiting"
    /\ cfpc' = "settled"
    /\ LET e == FacadeError(class, "", "", m)
       IN  /\ cfUnder' = <<[response |-> <<>>, error |-> <<e>>]>>
           /\ cfThrown' = IF cfCall[1].inTry THEN <<FetchFailed(cfCall[1].backend, e)>>
                          ELSE <<e>>
    /\ UNCHANGED <<cfConfig, cfMemory, cfDisk, cfCall, cfReturned, cfPrev, cfUpdate,
                   cfClear>>
    /\ UNCHANGED <<now, limVars, opVars, extVars, fetVars>>

\* updateConfig(newConfig); `ok`: initializeCaches() does not fail
UpdateConfig(new, ok) ==
    /\ cfConfig' = UpdatedConfig(cfConfig, new)
    /\ IF SchemaAccepts(Spread(cfConfig, new))
       THEN /\ cfMemory' = InitializeCaches(ok, cfMemory)
            /\ cfDisk' = InitializeCaches(ok, cfDisk)
       ELSE UNCHANGED <<cfMemory, cfDisk>>
    /\ cfUpdate' = <<[arg |-> new, before |-> cfConfig,
                      threw |-> ~SchemaAccepts(Spread(cfConfig, new))]>>
    /\ UNCHANGED <<cfpc, cfCall, cfUnder, cfReturned, cfThrown, cfPrev, cfClear>>
    /\ UNCHANGED <<now, limVars, opVars, extVars, fetVars>>

\* getConfig(): a copy of this.config
GetConfig == cfConfig

\* what a backend's clear() does when called
ClearBehaviours == {"resolves", "throws", "rejects"}

\* clearCaches() up to `await Promise.all(promises)`; memHas, diskHas: the backend
\* has a clear function; memDoes, diskDoes: what that function does. A clear() that
\* throws leaves the try block at once.
ClearCachesCall(memHas, diskHas, memDoes, diskDoes) ==
    /\ cfpc \in {"idle", "settled", "cleared"}
    /\ LET memTried == cfMemory /\ memHas
           memThrew == memTried /\ memDoes = "throws"
           diskTried == ~memThrew /\ cfDisk /\ diskHas
           diskThrew == diskTried /\ diskDoes = "throws"
           memRejects == memTried /\ memDoes = "rejects"
           diskRejects == diskTried /\ diskDoes = "rejects"
           caught == memThrew \/ diskThrew
       IN  /\ cfClear' = <<[memory |-> cfMemory, disk |-> cfDisk,
                            memHas |-> memHas, diskHas |-> diskHas,
                            memDoes |-> memDoes, diskDoes |-> diskDoes,
                            memTried |-> memTried, diskTried |-> diskTried,
                            rejecting |-> ~caught /\ (memRejects \/ diskRejects),
                            unhandled |-> caught /\ memRejects,
                            warned |-> caught, propagated |-> FALSE]>>
           /\ cfpc' = IF caught THEN "cleared" ELSE "clearing"
    /\ UNCHANGED <<cfConfig, cfMemory, cfDisk, cfCall, cfUnder, cfReturned, cfThrown,
                   cfPrev, cfUpdate>>
    /\ UNCHANGED <<now, limVars, opVars, extVars, fetVars>>

\* Promise.all settles: a rejection is caught and logged, clearCaches() resolves
ClearCachesSettle ==
    /\ cfpc = "clearing"
    /\ cfpc' = "cleared"
    /\ cfClear' = <<[cfClear[1] EXCEPT !.warned = cfClear[1].rejecting]>>
    /\ UNCHANGED <<cfConfig, cfMemory, cfDisk, cfCall, cfUnder, cfReturned, cfThrown,
                   cfPrev, cfUpdate>>
    /\ UNCHANGED <<now, limVars, opVars, extVars, fetVars>>

\* new ConfigurableFetch(config); `ok`: initializeCaches() does not fail. Only
\* configurations the schema accepts give an instance.
Constructed(config, ok) ==
    /\ InitLimiter
    /\ maxRequests = MaxN
    /\ windowMs = MaxWindow
    /\ InitOps
    /\ InitFetch
    /\ InitExt
    /\ SchemaAccepts(ConstructorInput(config))
    /\ cfConfig = SchemaOutput(ConstructorInput(config))
    /\ cfMemory = InitializeCaches(ok, FALSE)
    /\ cfDisk = InitializeCaches(ok, FALSE)
    /\ cfpc = "idle"
    /\ cfCall = <<>>
    /\ cfUnder = <<>>
    /\ cfReturned = <<>>
    /\ cfThrown = <<>>
    /\ cfPrev = <<>>
    /\ cfUpdate = <<>>
    /\ cfClear = <<>>

\* configurations that set the backend only
BackendConfigs == {c \in PartialConfigs :
                      c.cacheTtl = <<>> /\ c.userAgent = <<>> /\ c.defaultHeaders = <<>>}
\* configurations that set the user agent and the default headers only
HeaderConfigs == {c \in PartialConfigs : c.cacheTtl = <<>> /\ c.backend = <<>>}

\* configurations that leave the header choices to HeaderConfigs
PlainConfigs == {c \in PartialConfigs :
                    /\ c.userAgent \in {<<>>, <<"UA1">>}
                    /\ c.defaultHeaders \in {<<>>, <<NoHeaders>>, <<[k \in {"X-A"} |-> "1"]>>}}

\* updateConfig calls on one instance
InitConfig == \E c \in PlainConfigs, ok \in BOOLEAN : Constructed(c, ok)
NextConfig == \E new \in PlainConfigs, ok \in BOOLEAN : UpdateConfig(new, ok)
SpecConfig == InitConfig /\ [][NextConfig]_vars

\* fetch calls that differ in their headers, under every header configuration
InitHeaders == \E c \in HeaderConfigs : Constructed(c, TRUE)
NextHeaders ==
    \/ \E form \in HeaderForms, h \in PerCallHeaderChoices :
          FacadeFetchCall(<<>>, FALSE, form, h)
    \/ \E st \in UnderStatuses : UnderResolve(st)
    \/ \E class \in {"Error", "nonError"}, m \in Messages : UnderReject(class, m)
SpecHeaders == InitHeaders /\ [][NextHeaders]_vars

\* fetch calls that differ in backend and noCache, with backend reconfigurations
InitFacadeCalls == \E c \in BackendConfigs, ok \in BOOLEAN : Constructed(c, ok)
NextFacade ==
    \/ \E opt \in BackendOptions, noCache \in BOOLEAN :
          FacadeFetchCall(opt, noCache, "object", NoHeaders)
    \/ \E st \in UnderStatuses : UnderResolve(st)
    \/ \E class \in {"Error", "nonError"}, m \in Messages : UnderReject(class, m)
    \/ \E new \in BackendConfigs, ok \in BOOLEAN : UpdateConfig(new, ok)
SpecFacade == InitFacadeCalls /\ [][NextFacade]_vars

\* clearCaches calls, with backend reconfigurations
NextClear ==
    \/ \E memHas \in BOOLEAN, diskHas \in BOOLEAN,
          memDoes \in ClearBehaviours, diskDoes \in ClearBehaviours :
          ClearCachesCall(memHas, diskHas, memDoes, diskDoes)
    \/ ClearCachesSettle
    \/ \E new \in BackendConfigs, ok \in BOOLEAN : UpdateConfig(new, ok)
SpecClear == InitFacadeCalls /\ [][NextClear]_vars

\* ------------------------------------- ConfigurableFetch.request (tools/status.ts)
\* The second fetch utility: request() awaits checkRateLimit(), then runs
\* executeWithRetry().  Time advances in steps of a third of a minute.

RqStep == Minute \div 3
RqMaxTime == MaxRqTicks * RqStep
RqStatuses == {200, 304, 404, 500}
\* what an attempt ends with: a thrown error (<<>>) or a response status (<<s>>)
AttemptOutcomes == {<<>>} \cup {<<st>> : st \in RqStatuses}
RqConfigs == [retries : {0, 1, 2}, retryDelay : {RqStep}, rateLimit : {1, 2}]

\* this.requestTimes.filter((time) => time > oneMinuteAgo)
RecentTimes(times, t) == SelectSeq(times, LAMBDA time : time > t - Minute)

\* waitTime = oldestRequest + 60 * 1000 - now, computed when the limit is reached
LimitWait(times, t) == times[1] + Minute - t

\* response.ok || (response.status >= 400 && response.status < 500)
Returned(st) == (200 <= st /\ st <= 299) \/ (400 <= st /\ st < 500)

\* this.config.retryDelay * 2 ** attempt
Backoff(delay, attempt) == delay * 2 ^ attempt

\* a call proceeds past checkRateLimit(): the captured time is pushed, the first
\* attempt is made
Proceed(c, times, t0) ==
    /\ rqTimes' = Append(times, t0)
    /\ rqPassed' = Append(rqPassed, now)
    /\ rq' = [rq EXCEPT ![c] = [IdleCall EXCEPT !.pc = "attempting", !.t0 = t0]]

\* request(url, options) up to the first await of checkRateLimit()
Request(c) ==
    /\ rq[c].pc \in {"idle", "done"}
    /\ Len(rqPassed) + Cardinality({d \in Callers : rq[d].pc = "limitWait"}) < MaxRqCalls
    /\ LET times == RecentTimes(rqTimes, now) IN
          IF Len(times) >= rqConfig.rateLimit /\ LimitWait(times, now) > 0
          THEN /\ rqTimes' = times
               /\ rq' = [rq EXCEPT ![c] = [IdleCall EXCEPT !.pc = "limitWait", !.t0 = now,
                                              !.wake = now + LimitWait(times, now)]]
               /\ UNCHANGED rqPassed
          ELSE Proceed(c, times, now)
    /\ UNCHANGED <<now, limVars, opVars, fetVars, cfVars, srvVars, rqConfig>>

\* the setTimeout of checkRateLimit() fires
LimitWake(c) ==
    /\ rq[c].pc = "limitWait"
    /\ now >= rq[c].wake
    /\ Proceed(c, rqTimes, rq[c].t0)
    /\ UNCHANGED <<now, limVars, opVars, fetVars, cfVars, srvVars, rqConfig>>

\* one iteration of the loop of executeWithRetry(): the fetch settles with `outcome`
Attempt(c, outcome) ==
    /\ rq[c].pc = "attempting"
    /\ LET tries == Append(rq[c].tries, outcome) IN
          IF outcome # <<>> /\ Returned(outcome[1])
          THEN rq' = [rq EXCEPT ![c].tries = tries, ![c].pc = "done",
                         ![c].out = <<[kind |-> "response", status |-> outcome[1],
                                       attempts |-> Len(tries)]>>]
          ELSE IF rq[c].attempt = rqConfig.retries
               THEN rq' = [rq EXCEPT ![c].tries = tries, ![c].pc = "done",
                              ![c].out = <<[kind |-> "error", status |-> 0,
                                            attempts |-> rqConfig.retries + 1]>>]
               ELSE rq' = [rq EXCEPT ![c].tries = tries, ![c].pc = "backoff",
                              ![c].sleeps = Append(@, Backoff(rqConfig.retryDelay,
                                                              rq[c].attempt)),
                              ![c].wake = now + Backoff(rqConfig.retryDelay,
                                                        rq[c].attempt)]
    /\ UNCHANGED <<now, limVars, opVars, fetVars, cfVars, srvVars, rqConfig, rqTimes,
                   rqPassed>>

\* the setTimeout of the backoff fires: the next iteration starts
BackoffWake(c) ==
    /\ rq[c].pc = "backoff"
    /\ now >= rq[c].wake
    /\ rq' = [rq EXCEPT ![c].pc = "attempting", ![c].attempt = @ + 1]
    /\ UNCHANGED <<now, limVars, opVars, fetVars, cfVars, srvVars, rqConfig, rqTimes,
                   rqPassed>>

\* the clock advances
TickRq ==
    /\ now + RqStep <= RqMaxTime
    /\ now' = now + RqStep
    /\ UNCHANGED <<limVars, opVars, fetVars, cfVars, extVars>>

\* new ConfigurableFetch(config)
InitRequests ==
    /\ InitLimiter
    /\ maxRequests = MaxN
    /\ windowMs = MaxWindow
    /\ InitOps
    /\ InitFetch
    /\ InitFacade
    /\ InitServer
    /\ rqConfig \in RqConfigs
    /\ rqTimes = <<>>
    /\ rq = [c \in Callers |-> IdleCall]
    /\ rqPassed = <<>>

\* one caller, one request() after the other, every retry configuration
NextRetry ==
    \/ TickRq
    \/ Request("c1")
    \/ LimitWake("c1")
    \/ \E outcome \in AttemptOutcomes : Attempt("c1", outcome)
    \/ BackoffWake("c1")

SpecRetry == InitRequests /\ [][NextRetry]_vars

\* an instance constructed with retries: 0
InitRequestsNoRetry == InitRequests /\ rqConfig.retries = 0

\* two callers whose request() calls may overlap, on an instance without retries
NextRequests ==
    \/ TickRq
    \/ \E c \in Callers : Request(c)
    \/ \E c \in Callers : LimitWake(c)
    \/ \E c \in Callers, outcome \in AttemptOutcomes : Attempt(c, outcome)

SpecRequests == InitRequestsNoRetry /\ [][NextRequests]_vars

\* ----------------------------------------------------- MCP CallTool handler
\* server.setRequestHandler(CallToolRequestSchema, ...): the tool is chosen by name,
\* its arguments are parsed by the tool's schema, the tool is awaited and its result
\* is formatted as text; everything runs inside one try block.

ToolNames == {"save_url", "get_archived_url", "search_archives", "check_archive_status"}
RequestNames == ToolNames \cup {"unknown_tool", "example_tool"}

\* new McpError(code, message) and the other values a tool or a schema can throw;
\* message is the list of the parts of the message string
McpError(code, message) == [class |-> "McpError", code |-> code, message |-> message]
Thrown(class, message) == [class |-> class, code |-> "", message |-> message]
ZodError == Thrown("Error", <<"<zod issues>">>)
ToolThrowables ==
    {Thrown("Error", <<"boom">>), Thrown("nonError", <<>>),
     McpError("InvalidParams", <<"bad input">>)}

\* an optional field of a result object: undefined (<<>>) or a value
Opt(vs) == {<<>>} \cup {<<v>> : v \in vs}

\* the result objects of the tools, by their optional fields
ToolResult(m, a, t, j, av, r, ia, fc, lc, tc, yc) ==
    [message |-> m, archivedUrl |-> a, timestamp |-> t, jobId |-> j, available |-> av,
     results |-> r, isArchived |-> ia, firstCapture |-> fc, lastCapture |-> lc,
     totalCaptures |-> tc, yearlyCaptures |-> yc]

ResultMessages == {"<success message>", "<failure message>"}

ToolResults(name) ==
    IF name = "save_url"
    THEN {ToolResult(m, a, t, j, <<>>, <<>>, <<>>, <<>>, <<>>, <<>>, <<>>) :
            m \in ResultMessages, a \in Opt({"<url>"}), t \in Opt({"<ts>"}),
            j \in Opt({"<job>"})}
    ELSE IF name = "get_archived_url"
    THEN {ToolResult(m, a, t, <<>>, av, <<>>, <<>>, <<>>, <<>>, <<>>, <<>>) :
            m \in ResultMessages, a \in Opt({"<url>"}), t \in Opt({"<ts>"}),
            av \in Opt(BOOLEAN)}
    ELSE IF name = "search_archives"
    THEN {ToolResult(m, <<>>, <<>>, <<>>, <<>>, r, <<>>, <<>>, <<>>, <<>>, <<>>) :
            m \in ResultMessages, r \in Opt({0, 1})}
    ELSE {ToolResult(m, <<>>, <<>>, <<>>, <<>>, <<>>, ia, fc, lc, tc, yc) :
            m \in ResultMessages, ia \in Opt(BOOLEAN), fc \in Opt({"<first>"}),
            lc \in Opt({"<last>"}), tc \in Opt({0, 3}), yc \in Opt({0, 1})}

\* a line of the text, added when its condition holds
Line(cond, label) == IF cond THEN <<label>> ELSE <<>>

\* the text the handler builds from a result
TextOf(name, r) ==
    IF name = "save_url"
    THEN <<r.message>> \o Line(r.archivedUrl # <<>>, "Archived URL")
            \o Line(r.timestamp # <<>>, "Timestamp") \o Line(r.jobId # <<>>, "Job ID")
    ELSE IF name = "get_archived_url"
    THEN <<r.message>> \o Line(r.archivedUrl # <<>>, "Archived URL")
            \o Line(r.timestamp # <<>>, "Timestamp")
            \o Line(r.available = <<TRUE>>, "Available: Yes")
            \o Line(r.available = <<FALSE>>, "Available: No")
    ELSE IF name = "search_archives"
    THEN <<r.message>> \o Line(r.results = <<1>>, "Results")
    ELSE IF r.isArchived = <<TRUE>>
         THEN <<r.message>> \o Line(r.firstCapture # <<>>, "First captured")
                 \o Line(r.lastCapture # <<>>, "Last captured")
                 \o Line(r.totalCaptures # <<>>, "Total captures")
                 \o Line(r.yearlyCaptures = <<1>>, "Captures by year")
         ELSE <<r.message>>

\* mutant of the catch block: every caught value is wrapped
HandlerCatchWrapsAll(e) ==
    McpError("InternalError",
             IF e.class = "nonError" THEN <<"Unknown error occurred">> ELSE e.message)

\* catch (error): an McpError is thrown again, anything else becomes an InternalError
\* carrying the message of an Error or 'Unknown error occurred'
HandlerCatch(e) ==
    IF e.class = "McpError"
    THEN e
    ELSE McpError("InternalError",
                  IF e.class = "Error" THEN e.message ELSE <<"Unknown error occurred">>)

\* the synchronous part of the handler: the switch on the name and the schema parse
CallTool(name, argsOk) ==
    /\ thpc \in {"idle", "returned", "thrown"}
    /\ thName' = name
    /\ thReturned' = <<>>
    /\ IF name \notin ToolNames
       THEN /\ thCaught' = <<McpError("MethodNotFound", <<"Unknown tool: ", name>>)>>
            /\ thThrown' = <<HandlerCatch(thCaught'[1])>>
            /\ thRan' = <<>>
            /\ thpc' = "thrown"
       ELSE IF ~argsOk
            THEN /\ thCaught' = <<ZodError>>
                 /\ thThrown' = <<HandlerCatch(thCaught'[1])>>
                 /\ thRan' = <<>>
                 /\ thpc' = "thrown"
            ELSE /\ thCaught' = <<>>
                 /\ thThrown' = <<>>
                 /\ thRan' = <<name>>
                 /\ thpc' = "awaiting"
    /\ UNCHANGED <<now, limVars, opVars, fetVars, cfVars, rqVars>>

\* the awaited tool returns a result: the text content is returned
ToolReturns(r) ==
    /\ thpc = "awaiting"
    /\ thReturned' = <<[type |-> "text", text |-> TextOf(thName, r)]>>
    /\ thpc' = "returned"
    /\ UNCHANGED <<thName, thRan, thCaught, thThrown>>
    /\ UNCHANGED <<now, limVars, opVars, fetVars, cfVars, rqVars>>

\* the awaited tool, or the formatting of its result, throws
ToolThrows(e) ==
    /\ thpc = "awaiting"
    /\ thCaught' = <<e>>
    /\ thThrown' = <<HandlerCatch(e)>>
    /\ thpc' = "thrown"
    /\ UNCHANGED <<thName, thRan, thReturned>>
    /\ UNCHANGED <<now, limVars, opVars, fetVars, cfVars, rqVars>>

NextServer ==
    \/ \E name \in RequestNames, argsOk \in BOOLEAN : CallTool(name, argsOk)
    \/ \E r \in ToolResults(thName) : ToolReturns(r)
    \/ \E e \in ToolThrowables : ToolThrows(e)

SpecServer == Init /\ [][NextServer]_vars

\* ------------------------------------------------------------------ claims

\* number of admissions of history h recorded less than windowMs before time t
WindowCount(h, t) == Cardinality({i \in 1..Len(h) : h[i] > t - windowMs})

\* some maxRequests + 1 admissions of the history lie less than windowMs apart
Exceeded ==
    \E i \in 1..Len(recent) :
        /\ i + maxRequests <= Len(recent)
        /\ recent[i + maxRequests] - recent[i] < windowMs

\* C1: with maxRequests >= 1 and a single caller issuing pairs, a waitForSlot() that
\* follows maxRequests recorded admissions does not return before windowMs have
\* elapsed since the first of them, so any maxRequests + 1 consecutive admissions
\* are at least windowMs apart.
C1_NotBeforeWindow ==
    maxRequests >= 1 =>
        /\ (pc["c1"] = "returned" /\ Len(recent) >= maxRequests)
              => now - recent[Len(recent) - maxRequests + 1] >= windowMs
        /\ ~Exceeded

C1_Witness ==
    /\ maxRequests >= 1
    /\ windowMs > 0
    /\ Len(recent) = maxRequests + 1
    /\ recent[maxRequests] = recent[1]
    /\ recent[maxRequests + 1] >= recent[1] + windowMs

\* a direct canMakeRequest() call by caller c has just returned
CanReturned(c) == pc'[c] \in {"canTrue", "canFalse"} /\ pc'[c] # pc[c]

\* C2: canMakeRequest() returns true exactly when fewer than maxRequests admissions
\* were recorded less than windowMs ago: true on a fresh limiter (maxRequests >= 1),
\* false once maxRequests admissions lie in the window, true again as soon as the
\* oldest of them is windowMs old.
C2_CanMakeRequest ==
    [][\A c \in Callers : CanReturned(c) =>
          /\ (pc'[c] = "canTrue") <=> (WindowCount(recent, now) < maxRequests)
          /\ (recent = <<>> /\ maxRequests >= 1) => pc'[c] = "canTrue"]_vars

C2_Witness ==
    /\ \E c \in Callers : pc[c] = "canTrue"
    /\ maxRequests >= 1
    /\ Len(recent) >= maxRequests
    /\ Len(requests) = 0
    /\ now = recent[Len(recent)] + windowMs

\* a step in which the limiter ran cleanup()
CleanupStep ==
    \E c \in Callers :
        \/ pc[c] = "loop" /\ pc'[c] # "loop"
        \/ pc[c] \in {"blocked", "sleeping"} /\ pc'[c] = "loop"
        \/ CanReturned(c)

Chronological(reqs) == \A i \in 1..Len(reqs) : \A j \in i..Len(reqs) : reqs[i] <= reqs[j]

\* C5 as stated: in every reachable state every stored timestamp lies within
\* [now - windowMs, now] and the timestamps are in non-decreasing order.
C5_AlwaysInWindow ==
    /\ \A i \in 1..Len(requests) : now - windowMs <= requests[i] /\ requests[i] <= now
    /\ Chronological(requests)

\* C5 amended: in every reachable state the stored timestamps are at most now and
\* in non-decreasing order; right after a cleanup() every stored timestamp lies in
\* (now - windowMs, now].  Between two cleanups older timestamps stay stored.
C5_InWindowAfterCleanup ==
    /\ [](/\ \A i \in 1..Len(requests) : requests[i] <= now
          /\ Chronological(requests))
    /\ [][CleanupStep =>
            \A i \in 1..Len(requests') : requests'[i] > now - windowMs]_vars

C5_Witness ==
    /\ \E c \in Callers : pc[c] = "blocked"
    /\ Len(requests) >= 1
    /\ Len(requests) < Len(recent)
    /\ \A i \in 1..Len(requests) : requests[i] > now - windowMs

\* C6: a step that records no admission changes the window at most by removing the
\* entries with timestamp <= now - windowMs, so it leaves the number of unexpired
\* stored admissions unchanged; an admission is appended only by recordRequest().
C6_OnlyRecordAppends ==
    [][/\ recent' = recent =>
            /\ \/ requests' = requests
               \/ requests' = SelectSeq(requests, LAMBDA time : time > now - windowMs)
            /\ now' = now => WindowCount(requests', now) = WindowCount(requests, now)
       /\ recent' # recent => requests' = Append(requests, now)]_vars

C6_Witness ==
    /\ \E c \in Callers : pc[c] = "aborted"
    /\ Len(requests) > 0
    /\ WindowCount(requests, now) = Len(requests)
    /\ Len(recent) > Len(requests)

\* a caller is inside waitForSlot()
Waiting(c) == pc[c] \in {"loop", "blocked", "sleeping"}

\* C7 as stated: for every limiter configuration, a waitForSlot() call that finds
\* the window full, with no other caller recording admissions, eventually resolves.
C7_WaitForSlotResolves ==
    (Waiting("c1") /\ Len(requests) > 0 /\ Len(requests) >= maxRequests)
        ~> pc["c1"] = "returned"

\* C8 as stated: every failed admission check inside waitForSlot() is followed by a
\* suspension of (oldestTimestamp + windowMs - now) + 100 ms before the next check.
C8_FailedCheckSuspends ==
    [][\A c \in Callers : (pc[c] = "blocked" /\ pc'[c] # "blocked") =>
          /\ pc'[c] = "sleeping"
          /\ Len(requests) > 0
          /\ wakeAt'[c] = now + (requests[1] + windowMs - now) + Slack]_vars

\* C9: more than maxRequests admissions lie less than windowMs apart only after two
\* callers both passed the admission check before either recorded; that interleaving
\* is reachable (C9_Witness).
C9_ExcessOnlyByRace == Exceeded => raced

C9_Witness == Exceeded /\ raced /\ maxRequests >= 1

\* C3 as stated: sequentially issued domain operations issue at most maxRequests
\* requests within any window of windowMs.
C3_QuotaPerWindow ==
    \A i \in 1..Len(issued) :
        i + maxRequests <= Len(issued) =>
            issued[i + maxRequests].at - issued[i].at >= windowMs

\* C4 as stated: every fetchWithTimeout call of a domain operation follows a
\* completed waitForSlot() and a recordRequest() made for that request.
C4_EveryFetchGated ==
    \A i \in 1..Len(issued) : issued[i].waited /\ issued[i].recorded

NonOkResponse == fresp # <<>> /\ ~StatusOk(fresp[1].status)

\* C11: a call whose underlying request completes with a non-2xx status s fails with
\* an HttpError whose status is s and whose response is the body text, or the empty
\* text when the body could not be read; it never resolves and never fails with
\* anything else.
C11_StatusError ==
    /\ NonOkResponse => fpc \in {"readingBody", "rejected"}
    /\ (NonOkResponse /\ fpc = "rejected") =>
          /\ fthrown # <<>>
          /\ fthrown[1].class = "HttpError"
          /\ fthrown[1].status = <<fresp[1].status>>
          /\ fthrown[1].response = <<IF fbody = "text" THEN fresp[1].body ELSE "">>

C11_Witness ==
    /\ fpc = "rejected"
    /\ fresp = <<ResponseOf(500, "Not Found")>>
    /\ fbody = "empty"
    /\ fthrown = <<HttpError("HTTP <status>: <statusText>", <<500>>, <<"">>)>>

\* C12 as stated: when the underlying fetch rejects with an Error that is not the
\* timeout abort, the call fails with an HttpError carrying that Error's message.
C12_TransportTyped ==
    (fpc = "rejected" /\ fcause = "Error") =>
        /\ fthrown[1].class = "HttpError"
        /\ fthrown[1].message = fcaught[1].message

\* C13: every call invokes the underlying fetch() once and ends in one of four
\* ways: resolved with the very response the fetch produced (2xx), or rejected with
\* the timeout error (an AbortError was caught), the HTTP-status error (non-2xx
\* response) or a transport error (any other rejection of the fetch).
C13_OneCallOneOutcome ==
    /\ fpc # "idle" => fcalls = 1
    /\ fpc = "resolved" =>
          /\ fresp # <<>>
          /\ StatusOk(fresp[1].status)
          /\ freturned = fresp
          /\ fthrown = <<>>
    /\ fpc = "rejected" =>
          /\ freturned = <<>>
          /\ fthrown # <<>>
          /\ ferror \in {"timeout", "http", "network", "rethrown"}
          /\ ferror = "timeout" <=> fcaught[1].name = "AbortError"
          /\ ferror = "http" <=> NonOkResponse
          /\ ferror \in {"network", "rethrown"} <=>
                (fresp = <<>> /\ fcaught[1].name # "AbortError")

C13_Witness ==
    /\ fpc = "resolved"
    /\ fcalls = 1
    /\ freturned = <<ResponseOf(299, "Not Found")>>

\* C14: updateConfig(newConfig) stores the previous configuration overridden by the
\* keys of newConfig when that object passes the schema (backend one of the three,
\* cacheTtl positive) and does not throw; otherwise it throws and getConfig()
\* returns the configuration that was in effect before the call.
C14_AtomicUpdate ==
    cfUpdate # <<>> =>
        LET u == cfUpdate[1]
            backend == IF u.arg.backend # <<>> THEN u.arg.backend ELSE u.before.backend
            cacheTtl == IF u.arg.cacheTtl # <<>> THEN u.arg.cacheTtl
                        ELSE u.before.cacheTtl
            userAgent == IF u.arg.userAgent # <<>> THEN u.arg.userAgent
                         ELSE u.before.userAgent
            defaultHeaders == IF u.arg.defaultHeaders # <<>> THEN u.arg.defaultHeaders
                              ELSE u.before.defaultHeaders
        IN  IF backend[1] \in FetchBackends /\ cacheTtl[1] > 0
            THEN /\ ~u.threw
                 /\ GetConfig = [backend |-> backend, cacheTtl |-> cacheTtl,
                                 userAgent |-> userAgent,
                                 defaultHeaders |-> defaultHeaders]
            ELSE /\ u.threw
                 /\ GetConfig = u.before

C14_Witness ==
    /\ cfUpdate # <<>>
    /\ cfUpdate[1].threw
    /\ cfUpdate[1].arg.backend = <<"cache-disk">>
    /\ cfUpdate[1].arg.cacheTtl = <<0>>
    /\ cfUpdate[1].before.backend = <<"cache-memory">>
    /\ GetConfig = cfUpdate[1].before

\* the value each source gives for the header named like k, whatever the case
PerCallNames(c, k) == {n \in DOMAIN c.perCall : Lower(n) = Lower(k)}
DefaultNames(c, k) == {n \in DOMAIN c.config.defaultHeaders[1] : Lower(n) = Lower(k)}
AgentSet(c) == c.config.userAgent # <<>> /\ c.config.userAgent[1] # ""

\* C15 as stated: every header sent carries the per-call value when the per-call
\* headers name it, else the configured user agent when it is User-Agent, else the
\* default value; and every header of the three sources is sent.
C15_PerCallWins ==
    cfCall # <<>> =>
        LET c == cfCall[1]
        IN  /\ \A k \in DOMAIN c.headers :
                  IF PerCallNames(c, k) # {}
                  THEN \E n \in PerCallNames(c, k) : c.headers[k] = c.perCall[n]
                  ELSE IF Lower(k) = "user-agent" /\ AgentSet(c)
                  THEN c.headers[k] = c.config.userAgent[1]
                  ELSE \E n \in DefaultNames(c, k) :
                          c.headers[k] = c.config.defaultHeaders[1][n]
            /\ {Lower(k) : k \in DOMAIN c.headers} =
                  {Lower(n) : n \in DOMAIN c.perCall}
                      \cup {Lower(n) : n \in DOMAIN c.config.defaultHeaders[1]}
                      \cup (IF AgentSet(c) THEN {"user-agent"} ELSE {})

\* the fetch function that stands for a backend
StrategyOf(backend) ==
    IF backend = "cache-memory" THEN "memoryCache"
    ELSE IF backend = "cache-disk" THEN "diskCache"
    ELSE "fetch"

\* the cache the call's backend names was set when the call was made
CacheSet(c) ==
    \/ c.backend = "cache-memory" /\ c.memory
    \/ c.backend = "cache-disk" /\ c.disk

\* a step of a fetch call: the call is made or the called function settles
FetchStep ==
    cfpc' # cfpc \/ cfCall' # cfCall \/ cfPrev' # cfPrev \/ cfUnder' # cfUnder

\* C16: a call with noCache whose backend is cache-memory or cache-disk calls the
\* built-in fetch and not the cache; a call without noCache on such a backend
\* calls the cache; and no step of a fetch call changes the stored configuration
\* or the caches.
C16_BypassThisCallOnly ==
    /\ [](cfCall # <<>> =>
            /\ (cfCall[1].noCache /\ cfCall[1].backend \in CachedBackends)
                  => cfCall[1].fn = "fetch"
            /\ (~cfCall[1].noCache /\ CacheSet(cfCall[1]))
                  => cfCall[1].fn = StrategyOf(cfCall[1].backend))
    /\ [][FetchStep =>
             (cfConfig' = cfConfig /\ cfMemory' = cfMemory /\ cfDisk' = cfDisk)]_vars

C16_Witness ==
    /\ cfPrev = <<[noCache |-> TRUE, backend |-> "cache-memory", fn |-> "fetch"]>>
    /\ cfCall # <<>>
    /\ ~cfCall[1].noCache
    /\ cfCall[1].backendOpt = <<>>
    /\ cfCall[1].fn = "memoryCache"
    /\ cfUpdate = <<>>

\* C17: a call uses the backend of its per-call option when it gives one and the
\* configured backend otherwise, and (unless noCache or a missing cache sends it to
\* the built-in fetch) calls that backend's function; a call never changes the
\* configured backend, so a later call without the option uses it.
C17_PerCallBackend ==
    /\ [](cfCall # <<>> =>
            /\ cfCall[1].backend = IF cfCall[1].backendOpt # <<>>
                                   THEN cfCall[1].backendOpt[1]
                                   ELSE cfCall[1].config.backend[1]
            /\ (cfCall[1].backend = "built-in" \/ (~cfCall[1].noCache /\ CacheSet(cfCall[1])))
                  => cfCall[1].fn = StrategyOf(cfCall[1].backend))
    /\ [][cfCall' # cfCall =>
             (cfConfig' = cfConfig /\ cfCall'[1].config = cfConfig)]_vars

C17_Witness ==
    /\ cfUpdate = <<>>
    /\ cfPrev = <<[noCache |-> FALSE, backend |-> "cache-disk", fn |-> "diskCache"]>>
    /\ cfCall # <<>>
    /\ cfCall[1].backendOpt = <<>>
    /\ cfCall[1].config.backend = <<"cache-memory">>
    /\ cfCall[1].fn = "memoryCache"

\* C18: a call (without noCache) for a cached backend whose cache is not set logs a
\* warning and calls the built-in fetch: it resolves with that fetch's response and
\* rejects only when that fetch rejects.
C18_FallbackToDirect ==
    (cfCall # <<>> /\ ~cfCall[1].noCache /\ cfCall[1].backend \in CachedBackends
        /\ ~CacheSet(cfCall[1])) =>
        /\ cfCall[1].fn = "fetch"
        /\ cfCall[1].warned
        /\ cfpc \in {"awaiting", "settled"}
        /\ cfThrown # <<>> => (cfUnder # <<>> /\ cfUnder[1].error # <<>>)
        /\ (cfUnder # <<>> /\ cfUnder[1].response # <<>>) =>
              /\ cfThrown = <<>>
              /\ cfReturned # <<>>
              /\ cfReturned[1].status = cfUnder[1].response[1].status
              /\ cfReturned[1].body = cfUnder[1].response[1].body

C18_Witness ==
    /\ cfCall # <<>>
    /\ cfCall[1].backend = "cache-disk"
    /\ ~cfCall[1].disk
    /\ ~cfCall[1].noCache
    /\ cfCall[1].warned
    /\ cfpc = "settled"
    /\ cfReturned = <<Clone(ResponseOf(200, "Not Found"))>>

\* C19 as stated: clearCaches() resolves without passing a failure on, and calls
\* clear() on every backend that is set and has one.
C19_ClearsEveryBackend ==
    (cfClear # <<>> /\ cfpc = "cleared") =>
        /\ ~cfClear[1].propagated
        /\ (cfClear[1].memory /\ cfClear[1].memHas) => cfClear[1].memTried
        /\ (cfClear[1].disk /\ cfClear[1].diskHas) => cfClear[1].diskTried

\* C20 as stated: when the called fetch function rejects with an Error of message
\* m the call rejects with 'Fetch failed (backend: <backend>): m', whatever its
\* options; an unsupported backend is rejected with 'Unsupported fetch backend:
\* <value>' and nothing is called.
C20_FailuresWrapped ==
    cfCall # <<>> =>
        /\ (cfpc = "settled" /\ cfUnder # <<>> /\ cfUnder[1].error # <<>>
               /\ cfUnder[1].error[1].class = "Error") =>
              /\ cfThrown # <<>>
              /\ cfThrown[1].message[1] = "Fetch failed (backend: <backend>): "
              /\ cfThrown[1].message[2] \in {cfCall[1].backend, "built-in"}
              /\ cfThrown[1].message[3] = cfUnder[1].error[1].message[3]
        /\ cfCall[1].backend \notin FetchBackends =>
              /\ cfThrown = <<FacadeError("Error", "Unsupported fetch backend: ",
                                          cfCall[1].backend, "")>>
              /\ cfCall[1].fn = "none"
              /\ cfUnder = <<>>

\* C28: on every path by which fetchWithTimeout settles (a returned response, an
\* HttpError for a status, a timeout, a rethrown or wrapped rejection) its timeout
\* timer has been cancelled or has already fired: none is pending after the settle
C28_NoTimerLeft ==
    fpc \in {"resolved", "rejected"} => ftimer \in {"cleared", "fired"}

\* a call rejected with the HttpError of a status, its timer cancelled while pending
C28_Witness ==
    /\ fpc = "rejected"
    /\ fthrown # <<>>
    /\ fthrown[1].status # <<>>
    /\ ftimer = "cleared"

\* the operation settled after its body threw or an inner block caught a value
Caught == pc["c1"] = "done" /\ opCaught # <<>>
HttpStatusCaught == Caught /\ opCaught[1].class = "HttpError" /\ opCaught[1].status # <<>>

\* C21 as stated: no operation throws, and every failure (a value thrown by the
\* validation, by fetchWithTimeout or by the JSON parsing) is returned as a result
\* with success = false and a message
C21_EveryFailureFails ==
    /\ opThrown = <<>>
    /\ Caught => /\ opReturn # <<>>
                 /\ opReturn[1].success = FALSE
                 /\ opReturn[1].message # <<>>

\* the failures that the operations report as a success: a 404 in searchArchives and
\* checkArchiveStatus, a body of saveUrl's second response that is not JSON
ReportedAsSuccess ==
    \/ opKind \in {"search", "status"} /\ HttpStatusCaught /\ opCaught[1].status = <<404>>
    \/ opKind = "save" /\ Caught /\ opCaught[1].name = "SyntaxError"

\* C21 (amended): no operation throws and every call that ends returns a result with
\* a boolean success and a message; every failure is returned with success = false,
\* except a 404 in searchArchives and checkArchiveStatus and a non-JSON body of
\* saveUrl's second response, which are returned with success = true
C21_FailuresReturned ==
    /\ opThrown = <<>>
    /\ (pc["c1"] = "done" /\ opKind # "none") =>
          /\ opReturn # <<>>
          /\ opReturn[1].success \in BOOLEAN
          /\ opReturn[1].message # <<>>
    /\ Caught => (opReturn[1].success <=> ReportedAsSuccess)

\* a transport failure that fetchWithTimeout rethrows as it is, returned as a failure
C21_Witness ==
    /\ Caught
    /\ opCaught[1].class = "Error"
    /\ opCaught[1].message = "fetch failed"
    /\ opReturn # <<>>
    /\ opReturn[1].success = FALSE

\* C22: searchArchives and checkArchiveStatus return a successful "not found" result
\* (empty results; isArchived = false and totalCaptures = 0) for an HttpError of
\* status 404 and success = false for any other status; getArchivedUrl returns
\* success = false for every status, 404 included
C22_NotFoundIsSuccess ==
    HttpStatusCaught =>
        /\ opKind = "search" =>
              IF opCaught[1].status = <<404>>
              THEN opReturn[1].success /\ opReturn[1].results = <<0>>
              ELSE ~opReturn[1].success
        /\ opKind = "status" =>
              IF opCaught[1].status = <<404>>
              THEN /\ opReturn[1].success
                   /\ opReturn[1].isArchived = <<FALSE>>
                   /\ opReturn[1].totalCaptures = <<0>>
              ELSE ~opReturn[1].success
        /\ opKind = "get" => ~opReturn[1].success

\* a 404 on the second request of checkArchiveStatus, reported as "not archived"
C22_Witness ==
    /\ HttpStatusCaught
    /\ opKind = "status"
    /\ opCaught[1].status = <<404>>
    /\ Len(opReqs) = 2
    /\ opReturn[1].success

FirstFailed == opFirst # <<>> /\ opFirst[1].out # "ok"
RateLimitMessage == <<"Rate limit exceeded. Please try again later.">>

\* what C24 says of a failed first request and of the number of requests
C24_FirstFailure ==
    /\ Len(opReqs) <= 2
    /\ FirstFailed =>
          /\ Len(opReqs) = 1
          /\ opReturn # <<>>
          /\ ~opReturn[1].success
          /\ opFirst[1].out = "http429" => opReturn[1].message = RateLimitMessage

\* C24 as stated: saveUrl issues its second request only when the first completed
\* successfully and carried neither a Location nor a Content-Location header
\* containing '/web/'; a failed first request is followed by no second one and by a
\* failure result (the rate limit message for a 429); at most two requests per call
C24_SecondOnlyWithoutHeader ==
    opKind = "save" =>
        /\ C24_FirstFailure
        /\ Len(opReqs) = 2 =>
              /\ opFirst[1].out = "ok"
              /\ ~IncludesWeb(opFirst[1].location)
              /\ ~IncludesWeb(opFirst[1].contentLocation)

\* C24 (amended): the second request is issued only when the first completed
\* successfully and the header saveUrl consults, Location or, when Location is absent
\* or empty, Content-Location, does not contain '/web/'; the rest as stated
C24_SecondOnlyWithoutConsultedHeader ==
    opKind = "save" =>
        /\ C24_FirstFailure
        /\ Len(opReqs) = 2 =>
              /\ opFirst[1].out = "ok"
              /\ IF opFirst[1].location # <<>> /\ opFirst[1].location[1] # ""
                 THEN ~IncludesWeb(opFirst[1].location)
                 ELSE ~IncludesWeb(opFirst[1].contentLocation)

\* a second request after a first response whose only header is a Content-Location
\* without '/web/'
C24_Witness ==
    /\ opKind = "save"
    /\ Len(opReqs) = 2
    /\ opFirst[1].location = <<>>
    /\ opFirst[1].contentLocation = <<"/save/status">>

\* C27: an operation called with a URL that validateUrl rejects returns success =
\* false without reaching waitForSlot(), recordRequest() or fetchWithTimeout: the
\* rate window is as it was at the call and no request was issued
C27_InvalidUrlNoRequest ==
    (pc["c1"] = "done" /\ opInput \in {"not-a-url", "ftp://example.com/"}) =>
        /\ opReturn # <<>>
        /\ ~opReturn[1].success
        /\ ~opWaited
        /\ opReqs = <<>>
        /\ requests = opBefore

\* a URL of another scheme rejected while the window holds an earlier admission
C27_Witness ==
    /\ pc["c1"] = "done"
    /\ opInput = "ftp://example.com/"
    /\ opReturn # <<>>
    /\ ~opReturn[1].success
    /\ requests # <<>>
    /\ requests = opBefore

TwoOrFourHundred(o) == o # <<>> /\ ((200 <= o[1] /\ o[1] <= 299) \/ (400 <= o[1] /\ o[1] <= 499))
\* an attempt that may be followed by another one
FiveHundredOrThrown(o) == o = <<>> \/ (500 <= o[1] /\ o[1] <= 599)

\* C25: request() makes at most retries + 1 attempts, returns the first 2xx or 4xx
\* response with no further attempt, retries only after a 5xx response or a thrown
\* error, sleeps retryDelay * 2^attempt between attempts and not after the last, and
\* fails with 'Request failed after retries+1 attempts' only when every attempt failed
C25_RetryPolicy ==
    LET r == rq["c1"]
        n == Len(r.tries)
    IN  /\ n <= rqConfig.retries + 1
        /\ \A i \in 1..n : TwoOrFourHundred(r.tries[i]) =>
              /\ i = n
              /\ r.pc = "done"
              /\ r.out = <<[kind |-> "response", status |-> r.tries[i][1],
                            attempts |-> n]>>
        /\ \A i \in 1..n : (i < n \/ r.pc \in {"backoff", "attempting"}) =>
              FiveHundredOrThrown(r.tries[i])
        /\ \A i \in 1..Len(r.sleeps) : r.sleeps[i] = rqConfig.retryDelay * 2 ^ (i - 1)
        /\ Len(r.sleeps) = IF r.pc \in {"backoff", "attempting"} \/ n = 0 THEN n ELSE n - 1
        /\ (r.out # <<>> /\ r.out[1].kind = "error") =>
              /\ n = rqConfig.retries + 1
              /\ r.out[1].attempts = rqConfig.retries + 1
              /\ \A i \in 1..n : ~TwoOrFourHundred(r.tries[i])

\* calls that proceeded past checkRateLimit() in the minute ending at time t
PassedInMinute(t) ==
    Cardinality({i \in 1..Len(rqPassed) : rqPassed[i] > t - Minute /\ rqPassed[i] <= t})

\* C26: no more than rateLimit calls proceed past checkRateLimit() within any
\* 60-second interval, whether the calls follow each other or overlap
C26_RequestsPerMinute ==
    \A i \in 1..Len(rqPassed) : PassedInMinute(rqPassed[i]) <= rqConfig.rateLimit

\* admissions of the history with a timestamp in the window of windowMs ending at t
AdmittedInWindow(t) ==
    Cardinality({i \in 1..Len(recent) : recent[i] > t - windowMs /\ recent[i] <= t})

\* C29: with k callers sharing a limiter of maxRequests N >= 1, each recording one
\* admission after each waitForSlot() that returned, no window of windowMs holds more
\* than N + k - 1 admissions
C29_RaceBound ==
    maxRequests >= 1 =>
        \A i \in 1..Len(recent) :
            AdmittedInWindow(recent[i]) <= maxRequests + Cardinality(Callers) - 1

\* the bound is attained: with N = 1 and two callers, two admissions in one window
C29_Witness ==
    /\ maxRequests = 1
    /\ windowMs > 0
    /\ \E i \in 1..Len(recent) : AdmittedInWindow(recent[i]) = 2
    /\ Len(recent) = MaxRecords

\* C30: waitForSlot() keeps no order among its callers.  While a caller is
\* suspended, a caller that entered waitForSlot() later can pass the admission
\* check and return first, and it can do so only once the oldest timestamp the
\* suspended caller waits for has expired, that is from 100 ms before the
\* suspended caller's wake-up time on; the suspended caller then finds the
\* window full again when it wakes and is suspended for another cycle.
C30_OvertakenInSlack ==
    [][maxRequests >= 1 =>
        \A c, d \in Callers :
            (c # d /\ pc[c] = "sleeping" /\ pc[d] = "loop" /\ pc'[d] = "returned")
                => /\ now >= wakeAt[c] - Slack
                   /\ waits[c].later => waits'[c].overtaken]_vars

\* a caller overtaken by a later arrival sleeps its second cycle, waiting for
\* the timestamp of the later arrival as a fresh waiter would
C30_Witness ==
    /\ maxRequests >= 1
    /\ \E c \in Callers :
        /\ pc[c] = "sleeping"
        /\ waits[c].overtaken
        /\ waits[c].cycles = 2
        /\ now < wakeAt[c]
        /\ Len(requests) >= maxRequests
        /\ wakeAt[c] = requests[1] + windowMs + Slack

====
